---- MODULE Spec2Model ----
(***************************************************************************)
(* Educational ERP (src/main.py): the in-memory repository `data`, the     *)
(* backing file erp_data.json, and one run of main(): load_data once, the  *)
(* menu handlers any number of times, save_data at exit.                   *)
(*                                                                         *)
(* A Python dict is a function whose DOMAIN is its key set.  The iteration *)
(* order of a dict is observable only by the legacy migration of           *)
(* load_data, so it is kept where it matters: the backing file carries the *)
(* order in which the document lists its classes.                          *)
(***************************************************************************)
EXTENDS Integers, Sequences, FiniteSets, TLC

VARIABLES
    pc,       \* position of main(): "start" (before load_data), "menu", "done",
              \* "crashed" (an exception left main)
    data,     \* the repository dict of main()
    file,     \* the content of DATA_FILE on disk
    issued,   \* history: student IDs handed out by add_student, in order
    saved     \* whether save_data wrote the file at exit

vars == <<pc, data, file, issued, saved>>

(* ------------------------------ bounds --------------------------------- *)
MaxStudentCounter == 3     \* add_student is explored while student_counter < this
MaxFacultyCounter == 2     \* add_faculty is explored while faculty_counter < this
MaxLegacyLen == 2          \* longest legacy name list in a start file

StreamNames == {"BCA", "BSc"}
ClassNames == {"1A", "2B"}
StudentNames == {"Asha"}
FacultyNames == {"Dr. Rao"}
LegacyNames == <<"Alice", "Bob", "Carol">>
None == "None"             \* Python None (no key of the model is this string)

(* ------------------------------ dicts ---------------------------------- *)
EmptyDict == << >>
Put(f, k, v) == [y \in (DOMAIN f) \cup {k} |-> IF y = k THEN v ELSE f[y]]
Del(f, k) == [y \in (DOMAIN f) \ {k} |-> f[y]]

(* f"{n:03d}": decimal, zero-padded to a width of at least three *)
Pad3(n) ==
    IF n < 10 THEN "00" \o ToString(n)
    ELSE IF n < 100 THEN "0" \o ToString(n)
    ELSE ToString(n)

StuId(n) == "STU" \o Pad3(n)
FacId(n) == "FAC" \o Pad3(n)

(* the repository of lines 14 and 17 *)
FreshData == [streams |-> EmptyDict, student_counter |-> 1, faculty_counter |-> 1]

(* the local `data` of main() before load_data has returned *)
Unloaded == [streams |-> EmptyDict, student_counter |-> 0, faculty_counter |-> 0]

(* ------------------------------ the file ------------------------------- *)
(* kind "missing": os.path.exists is false; "unparseable": open or         *)
(* json.load raises IOError / JSONDecodeError; "json": doc is the parsed   *)
(* document, a class's students being [list |-> names] or [dict |-> map],  *)
(* and order lists the <<stream, class>> pairs as the document does.       *)
MissingFile == [kind |-> "missing", doc |-> EmptyDict, order |-> << >>]
UnparseableFile == [kind |-> "unparseable", doc |-> EmptyDict, order |-> << >>]

(* bytes that are not text in the encoding of open(DATA_FILE, "r"):        *)
(* f.read() inside json.load raises UnicodeDecodeError, a ValueError that  *)
(* is neither IOError nor JSONDecodeError                                  *)
UndecodableFile == [kind |-> "undecodable", doc |-> EmptyDict, order |-> << >>]

(* a document that parses to a list, a number, a string or null *)
NonObjectFile == [kind |-> "nonobject", doc |-> EmptyDict, order |-> << >>]

(* an object without a "streams" field: {} *)
NoStreamsFile == [kind |-> "json", doc |-> EmptyDict, order |-> << >>]

RECURSIVE SeqOfSet(_)
SeqOfSet(S) ==
    IF S = {} THEN << >>
    ELSE LET x == CHOOSE y \in S : TRUE IN <<x>> \o SeqOfSet(S \ {x})

RECURSIVE ItemsOrder(_, _)
ItemsOrder(streams, ss) ==
    IF ss = << >> THEN << >>
    ELSE LET s == Head(ss)
             cs == SeqOfSet(DOMAIN streams[s].classes)
         IN [i \in 1..Len(cs) |-> <<s, cs[i]>>] \o ItemsOrder(streams, Tail(ss))

(* only the streams are written *)
json_dump_streams(d) ==
    [streams |->
        [s \in DOMAIN d.streams |->
            [classes |-> [c \in DOMAIN d.streams[s].classes |->
                            [students |-> [dict |-> d.streams[s].classes[c].students]]],
             faculty |-> d.streams[s].faculty]]]

(* json.dump(data, f): every field of data is written; a students dict is  *)
(* written as an object                                                    *)
json_dump(d) ==
    IF "streams" \notin DOMAIN d THEN d
    ELSE [streams |->
            [s \in DOMAIN d.streams |->
                [classes |-> [c \in DOMAIN d.streams[s].classes |->
                                [students |-> [dict |-> d.streams[s].classes[c].students]]],
                 faculty |-> d.streams[s].faculty]],
          student_counter |-> d.student_counter,
          faculty_counter |-> d.faculty_counter]

DumpedFile(d) ==
    [kind |-> "json", doc |-> json_dump(d),
     order |-> IF "streams" \notin DOMAIN d THEN << >>
               ELSE ItemsOrder(d.streams, SeqOfSet(DOMAIN d.streams))]

(* lines 9-17: the document read, or the fresh repository *)
ReadOrFresh(f) ==
    IF f.kind = "json" THEN f.doc
    ELSE [streams |-> EmptyDict, student_counter |-> 1, faculty_counter |-> 1]

(* lines 19-23 *)
EnsureCounters(d) ==
    LET d1 == IF "student_counter" \notin DOMAIN d
              THEN d @@ [student_counter |-> 1] ELSE d
    IN IF "faculty_counter" \notin DOMAIN d1
       THEN d1 @@ [faculty_counter |-> 1] ELSE d1

(* lines 29-33: the names of one legacy list get the next IDs, in order *)
RECURSIVE NewStudents(_, _, _)
NewStudents(names, counter, acc) ==
    IF names = << >> THEN acc
    ELSE NewStudents(Tail(names), counter + 1,
                     Put(acc, StuId(counter), [name |-> Head(names)]))

(* the enumerate index is used as the ID number: every list starts at 1 *)
MigrateClass_index(d, s, c) ==
    LET field == d.streams[s].classes[c].students
    IN IF "list" \in DOMAIN field
       THEN [d EXCEPT !.streams[s].classes[c].students =
                          NewStudents(field.list, 1, EmptyDict),
                      !.student_counter = @ + Len(field.list)]
       ELSE [d EXCEPT !.streams[s].classes[c].students = field.dict]

(* no isinstance test: an ID-keyed dict is renumbered like a list *)
MigrateClass_always(d, s, c) ==
    LET field == d.streams[s].classes[c].students
        names == IF "list" \in DOMAIN field THEN field.list
                 ELSE LET ids == SeqOfSet(DOMAIN field.dict)
                      IN [i \in 1..Len(ids) |-> field.dict[ids[i]].name]
    IN [d EXCEPT !.streams[s].classes[c].students =
                     NewStudents(names, d.student_counter, EmptyDict),
                 !.student_counter = @ + Len(names)]

(* lines 28-34 for one class: d holds tagged students at <<s, c>> *)
MigrateClass(d, s, c) ==
    LET field == d.streams[s].classes[c].students
    IN IF "list" \in DOMAIN field
       THEN [d EXCEPT !.streams[s].classes[c].students =
                          NewStudents(field.list, d.student_counter, EmptyDict),
                      !.student_counter = @ + Len(field.list)]
       ELSE [d EXCEPT !.streams[s].classes[c].students = field.dict]

(* lines 26-34: every class, in the document's order *)
RECURSIVE Migrate(_, _)
Migrate(d, order) ==
    IF order = << >> THEN d
    ELSE Migrate(MigrateClass(d, Head(order)[1], Head(order)[2]), Tail(order))

load_data(f) ==
    Migrate(EnsureCounters(ReadOrFresh(f)),
            IF f.kind = "json" THEN f.order ELSE << >>)

(* the exceptions that leave load_data: UnicodeDecodeError from line 12,   *)
(* which line 15 does not catch, and TypeError from lines 20-21 when the   *)
(* document is not an object                                               *)
load_raises(f) == f.kind \in {"undecodable", "nonobject"}

(* every handler starts by reading data["streams"] (lines 110, 117, 129,   *)
(* 149, 163, 192, 205, 238, 269): KeyError when load_data returned a       *)
(* document without that field                                             *)
handler_raises(d) == "streams" \notin DOMAIN d

(* ------------------------------ helpers -------------------------------- *)
(* select_option: the option chosen; None when nothing is available, on    *)
(* Back and on a number that is not on the menu                            *)
select_option(options, choice) == IF choice \in options THEN choice ELSE None

(* what is typed at a (y/n) prompt (lines 196-197), and confirm.lower() *)
Confirmations == {"Y", "n"}

(* every answer counts as a yes *)
Lower_yes(x) == "y"

Lower(x) == IF x = "Y" THEN "y" ELSE IF x = "N" THEN "n" ELSE x

(* What a handler leaves behind: the repository, the outcome it reports,   *)
(* the number of prompts it went through, and the ID it issued if any.     *)
Out(d, outcome, prompts, id) ==
    [data |-> d, result |-> outcome, prompts |-> prompts, id |-> id]

(* an answer or nothing *)
Opt(S) == S \cup {None}

(* the answers the k-th prompt of a handler can get: r is the handler run  *)
(* with no answer from the k-th prompt on, so the prompt is put exactly    *)
(* when r got as far as it                                                 *)
Prompt(r, k, answers) == IF r.prompts >= k THEN answers ELSE {None}

(* the menu runs a handler *)
Run(r) == data' = r.data

(* ------------------------------ Init ----------------------------------- *)
Init ==
    /\ pc = "start"
    /\ data = Unloaded
    /\ file = MissingFile
    /\ issued = << >>
    /\ saved = FALSE

(* Start files of an installation that was used before: one stream with   *)
(* two classes, each class either a legacy name list or an ID-keyed dict,  *)
(* the counters written or (older shape) absent, the classes listed in     *)
(* either order; also no file at all and a file that does not parse.       *)
LegacyFields == {[list |-> SubSeq(LegacyNames, 1, n)] : n \in 0..MaxLegacyLen}
DictFields == {[dict |-> EmptyDict], [dict |-> (StuId(1) :> [name |-> "Asha"])]}

DictSize(field) == IF "dict" \in DOMAIN field THEN Cardinality(DOMAIN field.dict) ELSE 0

StartStreams(f1, f2) ==
    ("BCA" :> [classes |-> ("1A" :> [students |-> f1]) @@ ("2B" :> [students |-> f2]),
               faculty |-> EmptyDict])

StartDoc(f1, f2, counters) ==
    IF counters
    THEN [streams |-> StartStreams(f1, f2),
          student_counter |-> 1 + DictSize(f1) + DictSize(f2),
          faculty_counter |-> 1]
    ELSE [streams |-> StartStreams(f1, f2)]

StartOrders == {<< <<"BCA", "1A">>, <<"BCA", "2B">> >>, << <<"BCA", "2B">>, <<"BCA", "1A">> >>}

StartFiles ==
    {MissingFile, UnparseableFile} \cup
    {[kind |-> "json", doc |-> StartDoc(f1, f2, counters), order |-> order] :
        f1 \in LegacyFields \cup DictFields, f2 \in LegacyFields,
        counters \in BOOLEAN, order \in StartOrders}

InitLegacy ==
    /\ pc = "start"
    /\ data = Unloaded
    /\ file \in StartFiles
    /\ issued = << >>
    /\ saved = FALSE

(* ------------------------------ add ------------------------------------ *)
(* no test of line 110: an existing stream is replaced by an empty one *)
add_stream_overwrite(d, stream_name) ==
    Out([d EXCEPT !.streams = Put(@, stream_name,
                                  [classes |-> EmptyDict, faculty |-> EmptyDict])],
        "Ok", 1, None)

add_stream(d, stream_name) ==
    IF stream_name \notin DOMAIN d.streams
    THEN Out([d EXCEPT !.streams = Put(@, stream_name,
                                       [classes |-> EmptyDict, faculty |-> EmptyDict])],
             "Ok", 1, None)
    ELSE Out(d, "DuplicateKey", 1, None)

(* the name is looked up in the classes of every stream *)
add_class_global(d, stream_choice, class_name) ==
    LET stream == select_option(DOMAIN d.streams, stream_choice)
    IN IF stream = None THEN Out(d, "Back", 1, None)
       ELSE IF \A t \in DOMAIN d.streams : class_name \notin DOMAIN d.streams[t].classes
       THEN Out([d EXCEPT !.streams[stream].classes =
                              Put(@, class_name, [students |-> EmptyDict])],
                "Ok", 2, None)
       ELSE Out(d, "DuplicateKey", 2, None)

add_class(d, stream_choice, class_name) ==
    LET stream == select_option(DOMAIN d.streams, stream_choice)
    IN IF stream = None THEN Out(d, "Back", 1, None)
       ELSE IF class_name \notin DOMAIN d.streams[stream].classes
       THEN Out([d EXCEPT !.streams[stream].classes =
                              Put(@, class_name, [students |-> EmptyDict])],
                "Ok", 2, None)
       ELSE Out(d, "DuplicateKey", 2, None)

(* the ID is taken but the counter is left where it was *)
insert_student_noinc(d, stream, class_name, student_name) ==
    [d EXCEPT !.streams[stream].classes[class_name].students =
                  Put(@, StuId(d.student_counter), [name |-> student_name])]

(* lines 143-145 *)
insert_student(d, stream, class_name, student_name) ==
    [d EXCEPT !.streams[stream].classes[class_name].students =
                  Put(@, StuId(d.student_counter), [name |-> student_name]),
              !.student_counter = @ + 1]

(* the ID is taken as soon as a stream is selected *)
add_student_early(d, stream_choice, class_choice, student_name) ==
    LET stream == select_option(DOMAIN d.streams, stream_choice)
        taken == [d EXCEPT !.student_counter = @ + 1]
    IN IF stream = None THEN Out(d, "Back", 1, None)
       ELSE IF DOMAIN d.streams[stream].classes = {} THEN Out(taken, "Empty", 1, None)
       ELSE LET class_name == select_option(DOMAIN d.streams[stream].classes, class_choice)
            IN IF class_name = None THEN Out(taken, "Back", 2, None)
               ELSE Out(insert_student(d, stream, class_name, student_name),
                        "Ok", 3, StuId(d.student_counter))

add_student(d, stream_choice, class_choice, student_name) ==
    LET stream == select_option(DOMAIN d.streams, stream_choice)
    IN IF stream = None THEN Out(d, "Back", 1, None)
       ELSE IF DOMAIN d.streams[stream].classes = {} THEN Out(d, "Empty", 1, None)
       ELSE LET class_name == select_option(DOMAIN d.streams[stream].classes, class_choice)
            IN IF class_name = None THEN Out(d, "Back", 2, None)
               ELSE Out(insert_student(d, stream, class_name, student_name),
                        "Ok", 3, StuId(d.student_counter))

(* one counter serves both kinds of ID *)
insert_faculty_shared(d, stream, faculty_name) ==
    [d EXCEPT !.streams[stream].faculty =
                  Put(@, FacId(d.faculty_counter),
                      [name |-> faculty_name, assigned_class |-> None]),
              !.faculty_counter = @ + 1,
              !.student_counter = @ + 1]

(* lines 154-159 *)
insert_faculty(d, stream, faculty_name) ==
    [d EXCEPT !.streams[stream].faculty =
                  Put(@, FacId(d.faculty_counter),
                      [name |-> faculty_name, assigned_class |-> None]),
              !.faculty_counter = @ + 1]

add_faculty(d, stream_choice, faculty_name) ==
    LET stream == select_option(DOMAIN d.streams, stream_choice)
    IN IF stream = None THEN Out(d, "Back", 1, None)
       ELSE Out(insert_faculty(d, stream, faculty_name), "Ok", 2, FacId(d.faculty_counter))

(* the assignment is announced but not stored *)
set_assigned_class_lost(d, stream, faculty, class_name) == d

(* line 185 *)
set_assigned_class(d, stream, faculty, class_name) ==
    [d EXCEPT !.streams[stream].faculty[faculty].assigned_class = class_name]

assign_faculty(d, stream_choice, faculty_choice, class_choice) ==
    LET stream == select_option(DOMAIN d.streams, stream_choice)
    IN IF stream = None THEN Out(d, "Back", 1, None)
       ELSE IF DOMAIN d.streams[stream].faculty = {} THEN Out(d, "Empty", 1, None)
       ELSE LET faculty == select_option(DOMAIN d.streams[stream].faculty, faculty_choice)
            IN IF faculty = None THEN Out(d, "Back", 2, None)
               ELSE IF DOMAIN d.streams[stream].classes = {} THEN Out(d, "Empty", 2, None)
               ELSE LET class_name == select_option(DOMAIN d.streams[stream].classes,
                                                    class_choice)
                    IN IF class_name = None THEN Out(d, "Back", 3, None)
                       ELSE Out(set_assigned_class(d, stream, faculty, class_name),
                                "Ok", 3, None)

(* ------------------------------ remove --------------------------------- *)
(* the stream's classes are cleared but the stream entry is kept *)
delete_stream_keep(d, stream) ==
    [d EXCEPT !.streams[stream].classes = EmptyDict]

(* line 199 *)
delete_stream(d, stream) ==
    [d EXCEPT !.streams = Del(@, stream)]

remove_stream(d, stream_choice, confirm) ==
    LET stream == select_option(DOMAIN d.streams, stream_choice)
    IN IF stream = None THEN Out(d, "Back", 1, None)
       ELSE IF Lower(confirm) = "y" THEN Out(delete_stream(d, stream), "Ok", 2, None)
       ELSE Out(d, "Cancelled", 2, None)

(* the loop compares the faculty's name, not its assigned class *)
faculty_assigned_byname(d, stream, class_name) ==
    \E faculty \in DOMAIN d.streams[stream].faculty :
        d.streams[stream].faculty[faculty].name = class_name

(* lines 218-223 *)
faculty_assigned(d, stream, class_name) ==
    \E faculty \in DOMAIN d.streams[stream].faculty :
        d.streams[stream].faculty[faculty].assigned_class = class_name

remove_class(d, stream_choice, class_choice, confirm) ==
    LET stream == select_option(DOMAIN d.streams, stream_choice)
    IN IF stream = None THEN Out(d, "Back", 1, None)
       ELSE IF DOMAIN d.streams[stream].classes = {} THEN Out(d, "Empty", 1, None)
       ELSE LET class_name == select_option(DOMAIN d.streams[stream].classes, class_choice)
            IN IF class_name = None THEN Out(d, "Back", 2, None)
               ELSE IF faculty_assigned(d, stream, class_name)
               THEN Out(d, "Conflict", 2, None)
               ELSE IF Lower(confirm) = "y"
               THEN Out([d EXCEPT !.streams[stream].classes = Del(@, class_name)],
                        "Ok", 3, None)
               ELSE Out(d, "Cancelled", 3, None)

(* the counter is taken back together with the student *)
delete_student_dec(d, stream, class_name, student_id) ==
    [d EXCEPT !.streams[stream].classes[class_name].students = Del(@, student_id),
              !.student_counter = @ - 1]

(* line 263 *)
delete_student(d, stream, class_name, student_id) ==
    [d EXCEPT !.streams[stream].classes[class_name].students = Del(@, student_id)]

remove_student(d, stream_choice, class_choice, student_choice, confirm) ==
    LET stream == select_option(DOMAIN d.streams, stream_choice)
    IN IF stream = None THEN Out(d, "Back", 1, None)
       ELSE IF DOMAIN d.streams[stream].classes = {} THEN Out(d, "Empty", 1, None)
       ELSE LET class_name == select_option(DOMAIN d.streams[stream].classes, class_choice)
            IN IF class_name = None THEN Out(d, "Back", 2, None)
               ELSE LET students == d.streams[stream].classes[class_name].students
                    IN IF DOMAIN students = {} THEN Out(d, "Empty", 2, None)
                       ELSE LET student_id == select_option(DOMAIN students, student_choice)
                            IN IF student_id = None THEN Out(d, "Back", 3, None)
                               ELSE IF Lower(confirm) = "y"
                               THEN Out(delete_student(d, stream, class_name, student_id),
                                        "Ok", 4, None)
                               ELSE Out(d, "Cancelled", 4, None)

remove_faculty(d, stream_choice, faculty_choice, confirm) ==
    LET stream == select_option(DOMAIN d.streams, stream_choice)
    IN IF stream = None THEN Out(d, "Back", 1, None)
       ELSE IF DOMAIN d.streams[stream].faculty = {} THEN Out(d, "Empty", 1, None)
       ELSE LET faculty_id == select_option(DOMAIN d.streams[stream].faculty, faculty_choice)
            IN IF faculty_id = None THEN Out(d, "Back", 2, None)
               ELSE IF Lower(confirm) = "y"
               THEN Out([d EXCEPT !.streams[stream].faculty = Del(@, faculty_id)],
                        "Ok", 3, None)
               ELSE Out(d, "Cancelled", 3, None)

(* ------------------------------ queries -------------------------------- *)
(* the faculty of every stream are looked at *)
view_classes_without_faculty_anystream(d) ==
    {sc \in UNION {{<<s, c>> : c \in DOMAIN d.streams[s].classes} : s \in DOMAIN d.streams} :
        \A t \in DOMAIN d.streams : \A faculty \in DOMAIN d.streams[t].faculty :
            d.streams[t].faculty[faculty].assigned_class # sc[2]}

(* lines 371-382: the <<stream, class>> pairs that are printed *)
view_classes_without_faculty(d) ==
    {sc \in UNION {{<<s, c>> : c \in DOMAIN d.streams[s].classes} : s \in DOMAIN d.streams} :
        \A faculty \in DOMAIN d.streams[sc[1]].faculty :
            d.streams[sc[1]].faculty[faculty].assigned_class # sc[2]}

(* the characters of the names and queries of the model *)
NameChars(name) ==
    CASE name = "Asha" -> <<"A", "s", "h", "a">>
      [] name = "Alice" -> <<"A", "l", "i", "c", "e">>
      [] name = "Bob" -> <<"B", "o", "b">>
      [] name = "Carol" -> <<"C", "a", "r", "o", "l">>

(* what can be typed at "Enter student name to search" (after .strip()) *)
Queries ==
    {<< >>, <<"a", "s">>, <<"A", "S">>, <<"L", "i">>, <<"o">>, <<"z">>}

(* str.lower() *)
LowerChar(ch) ==
    CASE ch = "A" -> "a" [] ch = "B" -> "b" [] ch = "C" -> "c"
      [] ch = "L" -> "l" [] ch = "S" -> "s" [] OTHER -> ch

lower(str) == [i \in 1..Len(str) |-> LowerChar(str[i])]

(* sub in str *)
Contains(sub, str) ==
    \E i \in 0..(Len(str) - Len(sub)) : SubSeq(str, i + 1, i + Len(sub)) = sub

(* the students of d with their places *)
StudentPlaces(d) ==
    UNION {UNION {{[name |-> d.streams[s].classes[c].students[sid].name,
                    id |-> sid, stream |-> s, class |-> c] :
                      sid \in DOMAIN d.streams[s].classes[c].students} :
                  c \in DOMAIN d.streams[s].classes} :
              s \in DOMAIN d.streams}

(* the stored name is compared as it is written *)
search_student_cased(d, query) ==
    IF query = << >> THEN {}
    ELSE {p \in StudentPlaces(d) : Contains(lower(query), NameChars(p.name))}

(* lines 290-306: the "Found: ..." lines that are printed *)
search_student(d, query) ==
    IF query = << >> THEN {}
    ELSE {p \in StudentPlaces(d) : Contains(lower(query), lower(NameChars(p.name)))}

(* lines 38-43: open(DATA_FILE, "w") and json.dump; on IOError the old     *)
(* file is left as it was (open failed) or is cut short (write failed)     *)
save_data(d, f, written) ==
    IF written THEN {DumpedFile(d)} ELSE {f, UnparseableFile}

(* ------------------------------ main ----------------------------------- *)
(* the keys the numbered menus can show *)
FacultyIds(d) == UNION {DOMAIN d.streams[s].faculty : s \in DOMAIN d.streams}
StudentIds(d) ==
    UNION {UNION {DOMAIN d.streams[s].classes[c].students : c \in DOMAIN d.streams[s].classes} :
              s \in DOMAIN d.streams}

(* line 390 *)
main_load ==
    /\ pc = "start"
    /\ ~load_raises(file)
    /\ data' = load_data(file)
    /\ pc' = "menu"
    /\ UNCHANGED <<file, issued, saved>>

(* lines 413-414 *)
menu_add_stream ==
    /\ pc = "menu"
    /\ \E stream_name \in StreamNames :
          Run(add_stream(data, stream_name))
    /\ UNCHANGED <<pc, file, issued, saved>>

(* lines 415-416 *)
menu_add_class ==
    /\ pc = "menu"
    /\ \E stream \in Opt(StreamNames) :
       \E class_name \in Prompt(add_class(data, stream, None), 2, ClassNames) :
          Run(add_class(data, stream, class_name))
    /\ UNCHANGED <<pc, file, issued, saved>>

(* lines 417-418 *)
menu_add_student ==
    /\ pc = "menu"
    /\ \E stream \in Opt(StreamNames) :
       \E class_name \in Prompt(add_student(data, stream, None, None), 2, Opt(ClassNames)) :
       \E student_name \in Prompt(add_student(data, stream, class_name, None), 3, StudentNames) :
          LET r == add_student(data, stream, class_name, student_name)
          IN /\ r.result = "Ok" => data.student_counter < MaxStudentCounter
             /\ Run(r)
             /\ issued' = IF r.result = "Ok" THEN Append(issued, r.id) ELSE issued
    /\ UNCHANGED <<pc, file, saved>>

(* lines 419-420 *)
menu_add_faculty ==
    /\ pc = "menu"
    /\ \E stream \in Opt(StreamNames) :
       \E faculty_name \in Prompt(add_faculty(data, stream, None), 2, FacultyNames) :
          LET r == add_faculty(data, stream, faculty_name)
          IN /\ r.result = "Ok" => data.faculty_counter < MaxFacultyCounter
             /\ Run(r)
    /\ UNCHANGED <<pc, file, issued, saved>>

(* lines 421-422 *)
menu_assign_faculty ==
    /\ pc = "menu"
    /\ \E stream \in Opt(StreamNames) :
       \E faculty \in Prompt(assign_faculty(data, stream, None, None), 2,
                             Opt(FacultyIds(data))) :
       \E class_name \in Prompt(assign_faculty(data, stream, faculty, None), 3,
                                Opt(ClassNames)) :
          Run(assign_faculty(data, stream, faculty, class_name))
    /\ UNCHANGED <<pc, file, issued, saved>>

(* lines 425-426 *)
menu_remove_stream ==
    /\ pc = "menu"
    /\ \E stream \in Opt(StreamNames) :
       \E confirm \in Prompt(remove_stream(data, stream, None), 2, Confirmations) :
          Run(remove_stream(data, stream, confirm))
    /\ UNCHANGED <<pc, file, issued, saved>>

(* lines 427-428 *)
menu_remove_class ==
    /\ pc = "menu"
    /\ \E stream \in Opt(StreamNames) :
       \E class_name \in Prompt(remove_class(data, stream, None, None), 2, Opt(ClassNames)) :
       \E confirm \in Prompt(remove_class(data, stream, class_name, None), 3, Confirmations) :
          Run(remove_class(data, stream, class_name, confirm))
    /\ UNCHANGED <<pc, file, issued, saved>>

(* lines 429-430 *)
menu_remove_student ==
    /\ pc = "menu"
    /\ \E stream \in Opt(StreamNames) :
       \E class_name \in Prompt(remove_student(data, stream, None, None, None), 2,
                                Opt(ClassNames)) :
       \E student_id \in Prompt(remove_student(data, stream, class_name, None, None), 3,
                                Opt(StudentIds(data))) :
       \E confirm \in Prompt(remove_student(data, stream, class_name, student_id, None), 4,
                             Confirmations) :
          Run(remove_student(data, stream, class_name, student_id, confirm))
    /\ UNCHANGED <<pc, file, issued, saved>>

(* lines 431-432 *)
menu_remove_faculty ==
    /\ pc = "menu"
    /\ \E stream \in Opt(StreamNames) :
       \E faculty_id \in Prompt(remove_faculty(data, stream, None, None), 2,
                                Opt(FacultyIds(data))) :
       \E confirm \in Prompt(remove_faculty(data, stream, faculty_id, None), 3,
                             Confirmations) :
          Run(remove_faculty(data, stream, faculty_id, confirm))
    /\ UNCHANGED <<pc, file, issued, saved>>

(* lines 439-440: the handler prints and assigns nothing *)
menu_view_classes_without_faculty ==
    /\ pc = "menu"
    /\ \E printed \in {view_classes_without_faculty(data)} : UNCHANGED vars

(* lines 433-434: the handler prints and assigns nothing *)
menu_search_student ==
    /\ pc = "menu"
    /\ \E query \in Queries : \E found \in {search_student(data, query)} : UNCHANGED vars

(* lines 441-442 with 45-54: json.dump into a new file                     *)
(* erp_backup_<timestamp>.json, which the program never reads; DATA_FILE   *)
(* is not opened                                                           *)
menu_backup ==
    /\ pc = "menu"
    /\ \E written \in BOOLEAN : UNCHANGED <<pc, data, file, issued, saved>>

(* lines 443-446 *)
menu_exit ==
    /\ pc = "menu"
    /\ \E written \in BOOLEAN :
          /\ file' \in save_data(data, file, written)
          /\ saved' = written
    /\ pc' = "done"
    /\ UNCHANGED <<data, issued>>

(* line 390: load_data raises and main() has no handler *)
main_load_raise ==
    /\ pc = "start"
    /\ load_raises(file)
    /\ pc' = "crashed"
    /\ UNCHANGED <<data, file, issued, saved>>

(* lines 413-432: the handler raises KeyError and main() has no handler *)
menu_handler_raise ==
    /\ pc = "menu"
    /\ handler_raises(data)
    /\ pc' = "crashed"
    /\ UNCHANGED <<data, file, issued, saved>>

Next ==
    \/ main_load
    \/ menu_add_stream
    \/ menu_add_class
    \/ menu_add_student
    \/ menu_add_faculty
    \/ menu_assign_faculty
    \/ menu_remove_stream
    \/ menu_remove_class
    \/ menu_remove_student
    \/ menu_remove_faculty
    \/ menu_view_classes_without_faculty
    \/ menu_backup
    \/ menu_exit

Spec == Init /\ [][Next]_vars

(* One short session on a start file: load, enrol, search, exit.  The migration of *)
(* load_data is a function of the file alone, and this is the part of a    *)
(* run that depends on it.                                                 *)
NextLegacy ==
    \/ main_load
    \/ menu_add_student
    \/ menu_search_student
    \/ menu_exit

SpecLegacy == InitLegacy /\ [][NextLegacy]_vars

(* The contents DATA_FILE can have when the program starts, one of each    *)
(* kind, and a session that loads, adds, backs up and exits.               *)
ShapeFiles ==
    {MissingFile, UnparseableFile, UndecodableFile, NonObjectFile, NoStreamsFile,
     DumpedFile(FreshData)}

InitFiles ==
    /\ pc = "start"
    /\ data = Unloaded
    /\ file \in ShapeFiles
    /\ issued = << >>
    /\ saved = FALSE

NextFiles ==
    \/ main_load
    \/ main_load_raise
    \/ ~handler_raises(data) /\ menu_add_stream
    \/ ~handler_raises(data) /\ menu_add_class
    \/ ~handler_raises(data) /\ menu_add_student
    \/ menu_handler_raise
    \/ menu_backup
    \/ menu_exit

SpecFiles == InitFiles /\ [][NextFiles]_vars

(* ============================ properties =============================== *)
ClassSlots(d) ==
    UNION {{<<s, c>> : c \in DOMAIN d.streams[s].classes} : s \in DOMAIN d.streams}

StudentsAt(d, slot) == d.streams[slot[1]].classes[slot[2]].students

StudentIdsIn(d, s) ==
    UNION {DOMAIN d.streams[s].classes[c].students : c \in DOMAIN d.streams[s].classes}

Referenced(d, s, c) ==
    \E f \in DOMAIN d.streams[s].faculty : d.streams[s].faculty[f].assigned_class = c

NoDanglingAssignment(d) ==
    \A s \in DOMAIN d.streams : \A f \in DOMAIN d.streams[s].faculty :
        \/ d.streams[s].faculty[f].assigned_class = None
        \/ d.streams[s].faculty[f].assigned_class \in DOMAIN d.streams[s].classes

SomeAssignment(d) ==
    \E s \in DOMAIN d.streams : \E f \in DOMAIN d.streams[s].faculty :
        d.streams[s].faculty[f].assigned_class # None

(* the number an ID was formatted from *)
StuNum(id) == CHOOSE n \in 0..MaxStudentCounter : StuId(n) = id

(* C1: from a fresh repository, the student IDs handed out by successive   *)
(* successful add_student calls are strictly increasing and no ID is       *)
(* handed out twice, whatever was removed in between.                      *)
C1_IssuedIdsIncrease ==
    \A i, j \in 1..Len(issued) :
        i < j => /\ issued[i] # issued[j]
                 /\ StuNum(issued[i]) < StuNum(issued[j])

(* a second ID was issued after the holder of the first was removed *)
C1_Witness ==
    /\ Len(issued) >= 2
    /\ issued[1] \notin StudentIds(data)
    /\ issued[2] \in StudentIds(data)

(* C2: remove_class on a class that some faculty of the same stream is     *)
(* assigned to ends with Conflict and returns the repository as it was     *)
(* (streams, classes, students, faculty, both counters), whatever is       *)
(* answered to a confirmation.                                             *)
C2_RemoveClassConflict ==
    pc = "menu" =>
        \A s \in DOMAIN data.streams : \A c \in DOMAIN data.streams[s].classes :
            Referenced(data, s, c) =>
                \A confirm \in Opt(Confirmations) :
                    remove_class(data, s, c, confirm) = Out(data, "Conflict", 2, None)

(* the removal of a class that holds students and is referenced was refused *)
C2_Witness ==
    \E s \in DOMAIN data.streams : \E c \in DOMAIN data.streams[s].classes :
        /\ Referenced(data, s, c)
        /\ DOMAIN data.streams[s].classes[c].students # {}
        /\ remove_class(data, s, c, "Y").result = "Conflict"

(* C3: from a fresh repository, every faculty's assigned_class is None or  *)
(* the name of a class that exists in the faculty's own stream.            *)
C3_AssignedClassExists == NoDanglingAssignment(data)

(* a faculty is assigned in one stream; the other stream has a class of    *)
(* the same name and no faculty                                            *)
C3_Witness ==
    \E s, t \in DOMAIN data.streams : \E f \in DOMAIN data.streams[s].faculty :
        /\ s # t
        /\ data.streams[s].faculty[f].assigned_class # None
        /\ data.streams[s].faculty[f].assigned_class \in DOMAIN data.streams[t].classes
        /\ DOMAIN data.streams[s].classes = {data.streams[s].faculty[f].assigned_class}
        /\ DOMAIN data.streams[t].faculty = {}

(* C4: a confirmed remove_stream(s) takes s out of the repository with     *)
(* its classes, students and faculty, leaves every other stream as it was, *)
(* and leaves no faculty with an assignment to a class that is gone.       *)
C4_RemoveStreamCascade ==
    pc = "menu" =>
        \A s \in DOMAIN data.streams : \A confirm \in {"y", "Y"} :
            \A r \in {remove_stream(data, s, confirm)} :
               /\ r.result = "Ok"
               /\ DOMAIN r.data.streams = (DOMAIN data.streams) \ {s}
               /\ \A t \in DOMAIN r.data.streams : r.data.streams[t] = data.streams[t]
               /\ StudentIdsIn(data, s) \cap StudentIds(r.data) = {}
               /\ (DOMAIN data.streams[s].faculty) \cap FacultyIds(r.data) = {}
               /\ NoDanglingAssignment(r.data)
               /\ r.data.student_counter = data.student_counter
               /\ r.data.faculty_counter = data.faculty_counter

(* a stream with a class, a student and an assigned faculty is removed     *)
(* from beside a stream that has a class of the same name and a student    *)
C4_Witness ==
    \E s, t \in DOMAIN data.streams :
        /\ s # t
        /\ StudentIdsIn(data, s) # {} /\ StudentIdsIn(data, t) # {}
        /\ \E f \in DOMAIN data.streams[s].faculty :
              data.streams[s].faculty[f].assigned_class \in DOMAIN data.streams[t].classes
        /\ DOMAIN remove_stream(data, s, "Y").data.streams = {t}

(* C5: after load_data of any start file, older shapes included, and any   *)
(* operations, no student ID occurs in two classes and no faculty ID in    *)
(* two streams.                                                            *)
C5_IdsUnique ==
    pc # "start" =>
        /\ \A p, q \in ClassSlots(data) :
              p # q => (DOMAIN StudentsAt(data, p)) \cap (DOMAIN StudentsAt(data, q)) = {}
        /\ \A s, t \in DOMAIN data.streams :
              s # t => (DOMAIN data.streams[s].faculty) \cap (DOMAIN data.streams[t].faculty) = {}

(* C6: after a successful save_data, load_data of the file gives the       *)
(* repository that was saved: streams, classes, students, faculty with     *)
(* their assignments, and both counters.                                   *)
C6_SaveLoadRoundTrip ==
    (pc = "done" /\ saved) => load_data(file) = data

C6_Witness ==
    /\ pc = "done" /\ saved
    /\ StudentIds(data) # {}
    /\ SomeAssignment(data)

(* the students field the file holds for the k-th class it lists *)
FileField(f, k) == f.doc.streams[f.order[k][1]].classes[f.order[k][2]].students

ListLen(field) == IF "list" \in DOMAIN field THEN Len(field.list) ELSE 0

(* names in the legacy lists of the classes listed before the k-th *)
RECURSIVE NamesBefore(_, _)
NamesBefore(f, k) ==
    IF k <= 1 THEN 0 ELSE NamesBefore(f, k - 1) + ListLen(FileField(f, k - 1))

FileCounter(f) == IF "student_counter" \in DOMAIN f.doc THEN f.doc.student_counter ELSE 1

(* the repository is as load_data returned it: nothing was enrolled since *)
JustLoaded == pc = "menu" /\ issued = << >> /\ file.kind = "json"

(* C7: load_data turns a legacy list of n names, met when student_counter  *)
(* is c, into the dict that gives the i-th name the ID numbered c+i-1, and *)
(* student_counter ends c+n; the IDs given to different legacy classes are *)
(* disjoint.                                                               *)
C7_LegacyMigration ==
    JustLoaded =>
        /\ \A k \in 1..Len(file.order) :
              LET field == FileField(file, k)
                  c == FileCounter(file) + NamesBefore(file, k)
                  students == StudentsAt(data, file.order[k])
              IN "list" \in DOMAIN field =>
                    /\ DOMAIN students = {StuId(c + i - 1) : i \in 1..Len(field.list)}
                    /\ Cardinality(DOMAIN students) = Len(field.list)
                    /\ \A i \in 1..Len(field.list) :
                          students[StuId(c + i - 1)] = [name |-> field.list[i]]
        /\ data.student_counter =
              FileCounter(file) + NamesBefore(file, Len(file.order) + 1)
        /\ \A k1, k2 \in 1..Len(file.order) :
              (/\ k1 # k2
               /\ "list" \in DOMAIN FileField(file, k1)
               /\ "list" \in DOMAIN FileField(file, k2))
              => (DOMAIN StudentsAt(data, file.order[k1]))
                     \cap (DOMAIN StudentsAt(data, file.order[k2])) = {}

(* ["Alice", "Bob"] met at counter 1, then a second legacy class *)
C7_Witness ==
    /\ JustLoaded
    /\ data.streams["BCA"].classes["1A"].students =
          ("STU001" :> [name |-> "Alice"]) @@ ("STU002" :> [name |-> "Bob"])
    /\ data.streams["BCA"].classes["2B"].students = ("STU003" :> [name |-> "Alice"])
    /\ data.student_counter = 4

(* the orders in which a document can list the classes of d *)
SlotOrders(d) ==
    {o \in [1..Cardinality(ClassSlots(d)) -> ClassSlots(d)] :
        \A i, j \in DOMAIN o : i # j => o[i] # o[j]}

(* C8: the migration changes nothing in a repository whose classes all     *)
(* hold ID-keyed students: students, IDs and student_counter stay, so      *)
(* saving a loaded repository and loading it again gives it back.          *)
C8_MigrationIdempotent ==
    pc = "menu" =>
        /\ \A order \in SlotOrders(data) :
              Migrate(EnsureCounters(json_dump(data)), order) = data
        /\ load_data(DumpedFile(data)) = data

(* a repository that the migration has produced from legacy lists *)
C8_Witness ==
    /\ JustLoaded
    /\ \E k \in 1..Len(file.order) : ListLen(FileField(file, k)) >= 2
    /\ Cardinality(StudentIds(data)) >= 3

(* no faculty of s other than f is assigned to c *)
OnlyHolder(d, s, f, c) ==
    \A g \in DOMAIN d.streams[s].faculty :
        g # f => d.streams[s].faculty[g].assigned_class # c

(* C9 as stated: after assign_faculty(s, f, c), assign_faculty with no     *)
(* class selected unassigns f, so that a confirmed remove_class(s, c)      *)
(* succeeds when no other faculty holds c.                                 *)
C9_UnassignByNone ==
    \A s \in DOMAIN data.streams :
        \A f \in DOMAIN data.streams[s].faculty, c \in DOMAIN data.streams[s].classes :
            LET assigned == assign_faculty(data, s, f, c).data
                unassigned == assign_faculty(assigned, s, f, None).data
            IN OnlyHolder(data, s, f, c)
               => remove_class(unassigned, s, c, "Y").result = "Ok"

(* C9: after a successful assign_faculty(s, f, c), remove_class(s, c) ends *)
(* with Conflict whatever is answered; once f has been assigned to another *)
(* class or removed by a confirmed remove_faculty(s, f), and no other      *)
(* faculty of s holds c, a confirmed remove_class(s, c) deletes c;         *)
(* assign_faculty with no class selected leaves the assignment as it was.  *)
C9_AssignBlocksRemove ==
    pc = "menu" =>
        \A s \in DOMAIN data.streams :
            \A f \in DOMAIN data.streams[s].faculty, c \in DOMAIN data.streams[s].classes :
                \A assign \in {assign_faculty(data, s, f, c)} :
                \A removed \in {remove_faculty(assign.data, s, f, "Y")} :
                    /\ assign.result = "Ok"
                    /\ assign.data.streams[s].faculty[f].assigned_class = c
                    /\ \A confirm \in Opt(Confirmations) :
                          remove_class(assign.data, s, c, confirm)
                              = Out(assign.data, "Conflict", 2, None)
                    /\ assign_faculty(assign.data, s, f, None).data = assign.data
                    /\ removed.result = "Ok"
                    /\ f \notin DOMAIN removed.data.streams[s].faculty
                    /\ OnlyHolder(data, s, f, c) =>
                          /\ \A r \in {remove_class(removed.data, s, c, "Y")} :
                                r.result = "Ok" /\ c \notin DOMAIN r.data.streams[s].classes
                          /\ \A c2 \in (DOMAIN data.streams[s].classes) \ {c} :
                             \A r \in {remove_class(assign_faculty(assign.data, s, f, c2).data,
                                                    s, c, "Y")} :
                                r.result = "Ok" /\ c \notin DOMAIN r.data.streams[s].classes

(* a faculty is assigned to a class that holds a student, the stream has   *)
(* another class, and the class goes once the faculty is removed           *)
C9_Witness ==
    \E s \in DOMAIN data.streams : \E f \in DOMAIN data.streams[s].faculty :
        LET c == data.streams[s].faculty[f].assigned_class
        IN /\ c # None
           /\ Cardinality(DOMAIN data.streams[s].classes) = 2
           /\ DOMAIN data.streams[s].classes[c].students # {}
           /\ remove_class(data, s, c, "Y").result = "Conflict"
           /\ remove_class(remove_faculty(data, s, f, "Y").data, s, c, "Y").result = "Ok"

(* C10: no step lowers student_counter or faculty_counter, and after a     *)
(* successful save_data the file gives back the counters that were saved.  *)
C10_CountersMonotonic ==
    [][/\ data'.student_counter >= data.student_counter
       /\ data'.faculty_counter >= data.faculty_counter
       /\ (pc' = "done" /\ saved')
          => /\ load_data(file').student_counter = data.student_counter
             /\ load_data(file').faculty_counter = data.faculty_counter]_vars

(* saved after students and faculty were enrolled and a student removed *)
C10_Witness ==
    /\ pc = "done" /\ saved
    /\ data.student_counter > 1 /\ data.faculty_counter > 1
    /\ Cardinality(StudentIds(data)) < data.student_counter - 1

(* C11: load_data gives the fresh repository (no streams, both counters   *)
(* 1) when DATA_FILE is missing and when reading or parsing it fails, and  *)
(* does not fail itself.                                                   *)
C11_LoadFallsBackToFresh ==
    [][(pc = "start" /\ file.kind \in {"missing", "unparseable", "undecodable"})
          => (pc' = "menu" /\ data' = FreshData)]_vars

(* C12: whatever DATA_FILE holds, load_data gives a repository with a      *)
(* streams mapping and both counters, and no operation after it aborts.    *)
C12_NothingFatal ==
    /\ pc # "crashed"
    /\ pc \in {"menu", "done"} =>
          {"streams", "student_counter", "faculty_counter"} \subseteq DOMAIN data

(* C13: add_stream on a name already present reports DuplicateKey and     *)
(* returns the repository as it was; on a new name it adds a stream with   *)
(* no classes and no faculty and changes no other stream and no counter.   *)
C13_AddStream ==
    pc = "menu" =>
        \A name \in StreamNames : \A r \in {add_stream(data, name)} :
            IF name \in DOMAIN data.streams
            THEN r.result = "DuplicateKey" /\ r.data = data
            ELSE /\ r.result = "Ok"
                 /\ DOMAIN r.data.streams = (DOMAIN data.streams) \cup {name}
                 /\ r.data.streams[name] = [classes |-> EmptyDict, faculty |-> EmptyDict]
                 /\ \A t \in DOMAIN data.streams : r.data.streams[t] = data.streams[t]
                 /\ r.data.student_counter = data.student_counter
                 /\ r.data.faculty_counter = data.faculty_counter

(* a stream that holds a student and a faculty is added again, and the     *)
(* other name is still free                                                *)
C13_Witness ==
    \E name \in DOMAIN data.streams :
        /\ StudentIdsIn(data, name) # {}
        /\ DOMAIN data.streams[name].faculty # {}
        /\ add_stream(data, name).result = "DuplicateKey"
        /\ StreamNames \ DOMAIN data.streams # {}

(* C14: add_class(s, c) reports DuplicateKey, returning the repository as  *)
(* it was, exactly when stream s already has a class c; a class c of       *)
(* another stream does not matter; otherwise it adds a class without       *)
(* students to s and changes nothing else.                                 *)
C14_AddClass ==
    pc = "menu" =>
        \A s \in DOMAIN data.streams : \A c \in ClassNames :
            \A r \in {add_class(data, s, c)} :
                /\ (r.result = "DuplicateKey") = (c \in DOMAIN data.streams[s].classes)
                /\ r.result \in {"DuplicateKey", "Ok"}
                /\ r.result = "DuplicateKey" => r.data = data
                /\ r.result = "Ok" =>
                      /\ r.data.streams[s].classes
                            = Put(data.streams[s].classes, c, [students |-> EmptyDict])
                      /\ r.data.streams[s].faculty = data.streams[s].faculty
                      /\ DOMAIN r.data.streams = DOMAIN data.streams
                      /\ \A t \in (DOMAIN data.streams) \ {s} :
                            r.data.streams[t] = data.streams[t]
                      /\ r.data.student_counter = data.student_counter
                      /\ r.data.faculty_counter = data.faculty_counter

(* class c holds a student in stream t and is new to stream s *)
C14_Witness ==
    \E s, t \in DOMAIN data.streams : \E c \in DOMAIN data.streams[t].classes :
        /\ s # t
        /\ DOMAIN data.streams[t].classes[c].students # {}
        /\ add_class(data, t, c).result = "DuplicateKey"
        /\ add_class(data, s, c).result = "Ok"
        /\ DOMAIN data.streams[s].classes # {}

(* C15: a successful add_faculty(s, name) issues the ID numbered           *)
(* faculty_counter, raises faculty_counter by one, inserts the faculty in  *)
(* s with no assigned class, and leaves student_counter, the classes, the  *)
(* students and every other faculty as they were; with no stream chosen    *)
(* it changes nothing.                                                     *)
C15_AddFaculty ==
    pc = "menu" =>
        /\ \A s \in DOMAIN data.streams : \A name \in FacultyNames :
              \A r \in {add_faculty(data, s, name)} :
                  /\ r.result = "Ok"
                  /\ r.id = FacId(data.faculty_counter)
                  /\ r.id \notin FacultyIds(data)
                  /\ r.data.faculty_counter = data.faculty_counter + 1
                  /\ r.data.student_counter = data.student_counter
                  /\ r.data.streams[s].faculty
                        = Put(data.streams[s].faculty, r.id,
                              [name |-> name, assigned_class |-> None])
                  /\ \A f \in DOMAIN data.streams[s].faculty :
                        r.data.streams[s].faculty[f] = data.streams[s].faculty[f]
                  /\ r.data.streams[s].classes = data.streams[s].classes
                  /\ DOMAIN r.data.streams = DOMAIN data.streams
                  /\ \A t \in (DOMAIN data.streams) \ {s} :
                        r.data.streams[t] = data.streams[t]
        /\ \A choice \in Opt(StreamNames) \ DOMAIN data.streams :
              \A r \in {add_faculty(data, choice, None)} :
                  r.result # "Ok" /\ r.data = data

(* FAC001 was issued to a stream that holds a class with a student *)
C15_Witness ==
    /\ data.faculty_counter = 2
    /\ \E s \in DOMAIN data.streams :
          /\ FacId(1) \in DOMAIN data.streams[s].faculty
          /\ data.streams[s].faculty[FacId(1)].assigned_class = None
          /\ StudentIdsIn(data, s) # {}
          /\ add_faculty(data, s, "Dr. Rao").id = FacId(2)

(* C16: view_classes_without_faculty lists exactly the <<stream, class>>   *)
(* pairs for which no faculty of that stream is assigned to the class; a   *)
(* faculty of another stream assigned to a class of the same name does not *)
(* keep the pair off the list.                                             *)
C16_ClassesWithoutFaculty ==
    pc = "menu" =>
        /\ view_classes_without_faculty(data)
              = {sc \in ClassSlots(data) : ~Referenced(data, sc[1], sc[2])}
        /\ \A s, t \in DOMAIN data.streams : \A c \in DOMAIN data.streams[s].classes :
              (/\ s # t
               /\ Referenced(data, t, c)
               /\ ~Referenced(data, s, c))
              => <<s, c>> \in view_classes_without_faculty(data)

(* stream t has a faculty on its class c and stream s has a class c with   *)
(* no faculty on it: <<s, c>> is listed, <<t, c>> is not                   *)
C16_Witness ==
    \E s, t \in DOMAIN data.streams : \E c \in DOMAIN data.streams[s].classes :
        /\ s # t
        /\ c \in DOMAIN data.streams[t].classes
        /\ Referenced(data, t, c)
        /\ <<s, c>> \in view_classes_without_faculty(data)
        /\ <<t, c>> \notin view_classes_without_faculty(data)

(* upper- and lower-case forms of one letter *)
CasePairs == {<<"A", "a">>, <<"B", "b">>, <<"C", "c">>, <<"L", "l">>, <<"S", "s">>}

SameLetter(a, b) == a = b \/ <<a, b>> \in CasePairs \/ <<b, a>> \in CasePairs

(* q occurs in n when the case of letters is ignored *)
Matches(q, n) ==
    \E i \in 0..(Len(n) - Len(q)) : \A j \in 1..Len(q) : SameLetter(q[j], n[i + j])

(* C17: search_student(q) reports exactly the students whose name contains *)
(* q when the case of letters is ignored, each with its ID and the stream  *)
(* and class that hold it; for the empty query and when nothing matches it *)
(* reports nothing.                                                        *)
C17_SearchStudent ==
    \A q \in Queries : \A found \in {search_student(data, q)} :
        /\ q = << >> => found = {}
        /\ q # << >> =>
              /\ \A s \in DOMAIN data.streams : \A c \in DOMAIN data.streams[s].classes :
                 \A sid \in DOMAIN data.streams[s].classes[c].students :
                    LET name == data.streams[s].classes[c].students[sid].name
                    IN Matches(q, NameChars(name))
                       <=> [name |-> name, id |-> sid, stream |-> s, class |-> c] \in found
              /\ \A p \in found :
                    /\ p.stream \in DOMAIN data.streams
                    /\ p.class \in DOMAIN data.streams[p.stream].classes
                    /\ p.id \in DOMAIN data.streams[p.stream].classes[p.class].students
                    /\ data.streams[p.stream].classes[p.class].students[p.id].name = p.name

(* "as" and "AS" find Asha in her class and not Alice or Bob of the other  *)
(* class; "z" finds nobody                                                 *)
C17_Witness ==
    /\ pc = "menu"
    /\ "BCA" \in DOMAIN data.streams
    /\ \E sid \in DOMAIN data.streams["BCA"].classes["1A"].students :
          /\ search_student(data, <<"a", "s">>)
                = {[name |-> "Asha", id |-> sid, stream |-> "BCA", class |-> "1A"]}
          /\ search_student(data, <<"A", "S">>) = search_student(data, <<"a", "s">>)
    /\ Cardinality(DOMAIN data.streams["BCA"].classes["2B"].students) = 2
    /\ search_student(data, <<"z">>) = {}
    /\ Cardinality(search_student(data, <<"o">>)) = 1

(* C18: load_data runs once, before any handler; DATA_FILE is written     *)
(* only by the exit action; the menu loop ends only through the exit       *)
(* action, which saves the repository as it is then; nothing happens after *)
(* it; backup does not write DATA_FILE.                                    *)
C18_LoadOnceSaveAtExit ==
    [][/\ (pc = "start" /\ pc' = "menu") => (data' = load_data(file) /\ file' = file)
       /\ pc = "start" => (data' = data \/ pc' = "menu")
       /\ pc # "start" => pc' # "start"
       /\ file' # file => (pc = "menu" /\ pc' = "done")
       /\ (pc = "menu" /\ pc' # "menu") =>
             /\ pc' = "done"
             /\ data' = data
             /\ file' \in save_data(data, file, saved')
       /\ pc = "done" => UNCHANGED vars]_vars

(* the answers the (y/n) prompt accepts *)
YesNo == {"y", "Y", "n", "N"}
Yes == {"y", "Y"}

(* C19: remove_stream, remove_class, remove_student and remove_faculty     *)
(* return the repository as it was when a selection is Back or not on the  *)
(* menu and when the confirmation is answered n; the entity is deleted     *)
(* exactly when everything was selected and the answer is y or Y (and, for *)
(* a class, no faculty is assigned to it).                                 *)
C19_AbandonedRemoveKeeps ==
    pc = "menu" =>
        \A stream \in Opt(StreamNames) :
            /\ \A confirm \in Prompt(remove_stream(data, stream, None), 2, YesNo) :
               \A r \in {remove_stream(data, stream, confirm)} :
                  /\ (r.result = "Ok") = (stream \in DOMAIN data.streams /\ confirm \in Yes)
                  /\ r.result # "Ok" => r.data = data
                  /\ r.result = "Ok" => stream \notin DOMAIN r.data.streams
            /\ \A class_name \in Prompt(remove_class(data, stream, None, None), 2,
                                        Opt(ClassNames)) :
               \A confirm \in Prompt(remove_class(data, stream, class_name, None), 3, YesNo) :
               \A r \in {remove_class(data, stream, class_name, confirm)} :
                  /\ r.result = "Ok" =>
                        /\ confirm \in Yes
                        /\ class_name \in DOMAIN data.streams[stream].classes
                        /\ class_name \notin DOMAIN r.data.streams[stream].classes
                  /\ r.result # "Ok" => r.data = data
                  /\ confirm \in Yes => r.result = "Ok"
            /\ \A class_name \in Prompt(remove_student(data, stream, None, None, None), 2,
                                        Opt(ClassNames)) :
               \A student_id \in Prompt(remove_student(data, stream, class_name, None, None), 3,
                                        Opt(StudentIds(data))) :
               \A confirm \in Prompt(remove_student(data, stream, class_name, student_id, None),
                                     4, YesNo) :
               \A r \in {remove_student(data, stream, class_name, student_id, confirm)} :
                  /\ r.result = "Ok" =>
                        /\ confirm \in Yes
                        /\ student_id \in DOMAIN data.streams[stream].classes[class_name].students
                        /\ student_id
                              \notin DOMAIN r.data.streams[stream].classes[class_name].students
                  /\ r.result # "Ok" => r.data = data
                  /\ confirm \in Yes => r.result = "Ok"
            /\ \A faculty_id \in Prompt(remove_faculty(data, stream, None, None), 2,
                                        Opt(FacultyIds(data))) :
               \A confirm \in Prompt(remove_faculty(data, stream, faculty_id, None), 3, YesNo) :
               \A r \in {remove_faculty(data, stream, faculty_id, confirm)} :
                  /\ r.result = "Ok" =>
                        /\ confirm \in Yes
                        /\ faculty_id \in DOMAIN data.streams[stream].faculty
                        /\ faculty_id \notin DOMAIN r.data.streams[stream].faculty
                  /\ r.result # "Ok" => r.data = data
                  /\ confirm \in Yes => r.result = "Ok"

(* a stream holds a class with a student and a faculty without a class:    *)
(* each of the four removals is cancelled by n and done by Y               *)
C19_Witness ==
    \E s \in DOMAIN data.streams : \E c \in DOMAIN data.streams[s].classes :
    \E sid \in DOMAIN data.streams[s].classes[c].students :
    \E f \in DOMAIN data.streams[s].faculty :
        /\ remove_stream(data, s, "n") = Out(data, "Cancelled", 2, None)
        /\ remove_class(data, s, c, "n") = Out(data, "Cancelled", 3, None)
        /\ remove_student(data, s, c, sid, "n") = Out(data, "Cancelled", 4, None)
        /\ remove_faculty(data, s, f, "n") = Out(data, "Cancelled", 3, None)
        /\ remove_stream(data, s, "Y").data # data
        /\ remove_class(data, s, c, "Y").data # data
        /\ remove_student(data, s, c, sid, "Y").data # data
        /\ remove_faculty(data, s, f, "Y").data # data

(* C20: from a fresh repository student_counter is 1 plus the number of    *)
(* student IDs issued; add_student that ends without a stream, in a stream *)
(* without classes or without a class returns the repository as it was; a  *)
(* successful add_student raises student_counter by one and inserts one    *)
(* student, under a new ID, into the chosen class and changes nothing      *)
(* else.                                                                   *)
C20_CounterCountsIssued ==
    /\ pc # "start" => data.student_counter = 1 + Len(issued)
    /\ pc = "menu" =>
       \A stream \in Opt(StreamNames) :
       \A class_name \in Prompt(add_student(data, stream, None, None), 2, Opt(ClassNames)) :
       \A student_name \in Prompt(add_student(data, stream, class_name, None), 3,
                                  StudentNames) :
       \A r \in {add_student(data, stream, class_name, student_name)} :
          /\ (r.result = "Ok")
                = (/\ stream \in DOMAIN data.streams
                   /\ class_name \in DOMAIN data.streams[stream].classes)
          /\ r.result # "Ok" => r.data = data
          /\ r.result = "Ok" =>
                /\ r.data.student_counter = data.student_counter + 1
                /\ r.data.faculty_counter = data.faculty_counter
                /\ r.id = StuId(data.student_counter)
                /\ r.id \notin StudentIds(data)
                /\ r.data.streams[stream].classes[class_name].students
                      = Put(data.streams[stream].classes[class_name].students,
                            r.id, [name |-> student_name])
                /\ StudentIds(r.data) = StudentIds(data) \cup {r.id}
                /\ \A slot \in ClassSlots(data) \ {<<stream, class_name>>} :
                      StudentsAt(r.data, slot) = StudentsAt(data, slot)
                /\ ClassSlots(r.data) = ClassSlots(data)
                /\ \A s \in DOMAIN data.streams :
                      r.data.streams[s].faculty = data.streams[s].faculty

(* two IDs were issued and one student was removed; one stream has no      *)
(* class and add_student ends there, the other has two classes             *)
C20_Witness ==
    /\ Len(issued) = 2
    /\ Cardinality(StudentIds(data)) = 1
    /\ \E s, t \in DOMAIN data.streams :
          /\ add_student(data, s, None, None).result = "Empty"
          /\ Cardinality(DOMAIN data.streams[t].classes) = 2
          /\ add_student(data, t, "1A", "Asha").id = StuId(3)

====
